---- MODULE Spec2Model ----
(***************************************************************************)
(* A model of src/parking_lot.py: the PARKED_CARS table, the ParkedCar     *)
(* request model, the handlers add_car, remove_car and get_car, and the    *)
(* fee computation ParkedCar.get_exit_fee.                                 *)
(*                                                                         *)
(* Time is counted in whole seconds from the 'start' of the seeded car     *)
(* X773HY97 (2022-06-25T17:21:33); money is counted in tenths of a         *)
(* currency unit, so that HOURLY_TARIFF = 2.5 is the integer 25.           *)
(* An Optional value is None (<<>>) or Some(v) (<<v>>); a str is the        *)
(* sequence of its characters.                                             *)
(***************************************************************************)
EXTENDS Integers, Sequences, FiniteSets, TLC

VARIABLES
    cars,       \* PARKED_CARS: car_id -> record
    now,        \* the wall clock that datetime.now() reads
    calls,      \* per client: the HTTP call it has outstanding, if any
    fee_call    \* one application of ParkedCar.get_exit_fee (SpecFee)

vars == <<cars, now, calls, fee_call>>

---------------------------------------------------------------------------
(* Module constants, lines 17-23.                                          *)

PARKING_LOT_CAPACITY == 14
ACCEPTED_TIME_DELAY == 900
FREE_PARKING_TIME == 900
\* 2.5, in tenths
HOURLY_TARIFF == 25
\* 10, in tenths
DAILY_TARIFF == 100
SECONDS_IN_HOUR == 3600
SECONDS_IN_DAY == 86400

---------------------------------------------------------------------------
(* Bounds of the model.                                                    *)

\* seconds the clock may advance after the process has booted
MaxTicks == 2
\* clients calling concurrently in SpecConc
MaxClients == 2
\* largest time parked, in seconds, that SpecFee draws
MaxElapsed == 172801

---------------------------------------------------------------------------
(* Optional values and strings.                                            *)

None == <<>>
Some(v) == <<v>>
Val(o) == o[1]

\* the characters of the class [A-Za-z0-9]
AlnumChars ==
    {"A","B","C","D","E","F","G","H","I","J","K","L","M","N","O","P","Q","R",
     "S","T","U","V","W","X","Y","Z",
     "a","b","c","d","e","f","g","h","i","j","k","l","m","n","o","p","q","r",
     "s","t","u","v","w","x","y","z",
     "0","1","2","3","4","5","6","7","8","9"}

\* re.fullmatch(r"[A-Za-z0-9]+", s) is not None
FullMatchPlate(s) == Len(s) >= 1 /\ \A i \in 1..Len(s) : s[i] \in AlnumChars

\* a slip: the quotient truncated (int(a / b)) instead of rounded up
Ceil_truncating(a, b) == a \div b

\* float division followed by math.ceil, on whole seconds
Ceil(a, b) == -((-a) \div b)

\* int(x) for an amount x >= 0 held in tenths: the fraction is dropped
IntOf(x) == (x \div 10) * 10

---------------------------------------------------------------------------
(* The table PARKED_CARS as the module creates it, lines 13-16.            *)

PlateX == <<"X","7","7","3","H","Y","9","7">>
PlateG == <<"G","7","3","7","T","T","9","7">>

\* 'start' of X773HY97, the origin of the time axis
StartX == 0
\* 'start' of G737TT97, 17:23:24 - 17:21:33 later
StartG == 111

\* a 'start' held as an ISO string (the seeded records)
IsoString(t) == [kind |-> "str", t |-> t]
\* a 'start' held as a datetime object
Datetime(t) == [kind |-> "datetime", t |-> t]

PARKED_CARS ==
    (PlateX :> [status |-> "parked", tariff |-> Some("hourly"), location |-> 7,
                start |-> IsoString(StartX), end |-> None, fee |-> None])
    @@
    (PlateG :> [status |-> "parked", tariff |-> Some("daily"), location |-> 14,
                start |-> IsoString(StartG), end |-> None, fee |-> None])

---------------------------------------------------------------------------
(* The enums TariffName and Tariffs, lines 26-33.                          *)

TariffName == {"hourly", "daily"}

\* Tariffs(int, Enum): each member is int(value)
Tariffs_hourly == IntOf(HOURLY_TARIFF)
Tariffs_daily == IntOf(DAILY_TARIFF)

---------------------------------------------------------------------------
(* ParkedCar, lines 75-105.                                                *)

\* the field constraints of the request model: car_id max_length=8,
\* location ge=0 and lt=PARKING_LOT_CAPACITY (and the validator, line 88)
location_field_ok(location) == location >= 0 /\ location < PARKING_LOT_CAPACITY

car_id_field_ok(car_id) == car_id = None \/ Len(Val(car_id)) <= 8

ParkedCarValid(p) == car_id_field_ok(p.car_id) /\ location_field_ok(p.location)

\* get_exit_fee(start, end, tariff): Some(fee), or None when no case matches
get_exit_fee(start, end, tariff) ==
    LET time_spent_when_parked == end - start IN
    IF time_spent_when_parked < FREE_PARKING_TIME
    THEN Some(0)
    ELSE IF tariff = Some("hourly")
         THEN Some(Ceil(time_spent_when_parked, SECONDS_IN_HOUR) * Tariffs_hourly)
         ELSE IF tariff = Some("daily")
              THEN Some(Ceil(time_spent_when_parked, SECONDS_IN_DAY) * Tariffs_daily)
              ELSE None

---------------------------------------------------------------------------
(* The handlers.  FastAPI awaits each "async def" handler on the event     *)
(* loop, and none of the three bodies contains an await: a handler runs    *)
(* from its first line to its return or raise with no other handler in     *)
(* between.  Each operator gives the table the handler leaves and its      *)
(* outcome: "ok", or the name of the exception it raises.                  *)

Raise(C, exception) == [cars |-> C, outcome |-> exception]
Ok(C) == [cars |-> C, outcome |-> "ok"]

\* a slip: the identifier tested for truth ("if not parked_car.car_id")
car_id_is_null_or_empty(p) == p.car_id = None \/ Val(p.car_id) = <<>>

\* line 157
car_id_is_null(p) == p.car_id = None

\* line 160
location_is_invalid(p) == p.location <= 0 \/ p.location > PARKING_LOT_CAPACITY

\* a slip: only the caller's own record is looked at
location_not_available_own_record(C, p) ==
    Val(p.car_id) \in DOMAIN C /\ C[Val(p.car_id)].location = p.location

\* line 163
location_not_available(C, p) == p.location \in {C[k].location : k \in DOMAIN C}

\* lines 166-169, present = datetime.now()
start_date_rejected(p, present) == present - Val(p.start) > ACCEPTED_TIME_DELAY

\* a slip: only the cars still parked count as existing
car_id_exists_parked_only(C, p) ==
    Val(p.car_id) \in DOMAIN C /\ C[Val(p.car_id)].status = "parked"

\* line 172
car_id_exists(C, p) == Val(p.car_id) \in DOMAIN C

\* lines 175-176
car_id_pattern_fails(p) == ~FullMatchPlate(Val(p.car_id))

\* a slip: a missing tariff replaced by a default
new_parked_record_default_tariff(p) ==
    [status |-> "parked", tariff |-> IF p.tariff = None THEN Some("hourly") ELSE p.tariff,
     location |-> p.location,
     start |-> Datetime(Val(p.start)), end |-> None, fee |-> None]

\* line 179
new_parked_record(p) ==
    [status |-> "parked", tariff |-> p.tariff, location |-> p.location,
     start |-> Datetime(Val(p.start)), end |-> None, fee |-> None]

\* PARKED_CARS[key] = record
Put(C, key, record) ==
    [k \in DOMAIN C \cup {key} |-> IF k = key THEN record ELSE C[k]]

\* a slip: the identifier checks moved ahead of the slot checks
add_car_identifier_first(C, p, present) ==
    IF car_id_is_null(p) THEN Raise(C, "CarIdNullException")
    ELSE IF car_id_exists(C, p) THEN Raise(C, "CarIdExistsException")
    ELSE IF car_id_pattern_fails(p) THEN Raise(C, "CarIdPatternException")
    ELSE IF location_is_invalid(p) THEN Raise(C, "InvalidLocationException")
    ELSE IF location_not_available(C, p) THEN Raise(C, "LocationNotAvailableException")
    ELSE IF p.start = None THEN Raise(C, "AttributeError")
    ELSE IF start_date_rejected(p, present) THEN Raise(C, "StartDateException")
    ELSE Ok(Put(C, Val(p.car_id), new_parked_record(p)))

\* a slip: the record written before the identifier's format is checked
add_car_write_first(C, p, present) ==
    IF car_id_is_null(p) THEN Raise(C, "CarIdNullException")
    ELSE IF location_is_invalid(p) THEN Raise(C, "InvalidLocationException")
    ELSE IF location_not_available(C, p) THEN Raise(C, "LocationNotAvailableException")
    ELSE IF p.start = None THEN Raise(C, "AttributeError")
    ELSE IF start_date_rejected(p, present) THEN Raise(C, "StartDateException")
    ELSE IF car_id_exists(C, p) THEN Raise(C, "CarIdExistsException")
    ELSE IF car_id_pattern_fails(p)
         THEN Raise(Put(C, Val(p.car_id), new_parked_record(p)), "CarIdPatternException")
    ELSE Ok(Put(C, Val(p.car_id), new_parked_record(p)))

\* add_car(parked_car), lines 156-180
add_car(C, p, present) ==
    IF car_id_is_null(p) THEN Raise(C, "CarIdNullException")
    ELSE IF location_is_invalid(p) THEN Raise(C, "InvalidLocationException")
    ELSE IF location_not_available(C, p) THEN Raise(C, "LocationNotAvailableException")
    \* parked_car.start.replace on None, line 166
    ELSE IF p.start = None THEN Raise(C, "AttributeError")
    ELSE IF start_date_rejected(p, present) THEN Raise(C, "StartDateException")
    ELSE IF car_id_exists(C, p) THEN Raise(C, "CarIdExistsException")
    ELSE IF car_id_pattern_fails(p) THEN Raise(C, "CarIdPatternException")
    ELSE Ok(Put(C, Val(p.car_id), new_parked_record(p)))

\* a slip: a parser that takes a datetime object as well
isoparse_raises_never(start) == FALSE

\* dateutil.parser.isoparse accepts a str (or bytes, or a stream); given a
\* datetime object it raises TypeError
isoparse_raises(start) == start.kind # "str"
isoparse(start) == Datetime(start.t)

\* a slip: the status compared with another spelling
already_removed_misspelt(C, car_id) == C[car_id].status = "Removed"

\* line 188
already_removed(C, car_id) == C[car_id].status = "removed"

\* lines 194-195; end_read and fee_read are the two datetime.now() of the
\* dict display, evaluated in this order
removed_record(C, car_id, p, end_read, fee_read) ==
    LET tariff == C[car_id].tariff
        start == isoparse(C[car_id].start)
    IN [status |-> "removed", tariff |-> tariff, location |-> p.location,
        start |-> start, end |-> Some(end_read),
        fee |-> get_exit_fee(start.t, fee_read, tariff)]

\* remove_car(car_id, parked_car), lines 184-196
remove_car(C, car_id, p, end_read, fee_read) ==
    IF car_id \notin DOMAIN C THEN Raise(C, "CarIdDoesNotExistException")
    ELSE IF already_removed(C, car_id) THEN Raise(C, "CarAlreadyRemovedException")
    ELSE IF isoparse_raises(C[car_id].start) THEN Raise(C, "TypeError")
    ELSE Ok(Put(C, car_id, removed_record(C, car_id, p, end_read, fee_read)))

\* get_car(car_id), lines 151-152
get_car(C, car_id) ==
    IF car_id \in DOMAIN C THEN Ok(C) ELSE Raise(C, "KeyError")

\* What the application does with one request: FastAPI builds the ParkedCar
\* of the body first and answers a body that fails its field constraints
\* with a validation error, without calling the handler.
Handle(C, req, read1, read2) ==
    IF req.op = "get_car" THEN get_car(C, req.path)
    ELSE IF ~ParkedCarValid(req.body) THEN Raise(C, "RequestValidationError")
    ELSE IF req.op = "add_car" THEN add_car(C, req.body, read1)
    ELSE remove_car(C, req.path, req.body, read1, read2)

---------------------------------------------------------------------------
(* The requests the clients send.                                          *)

PlateA == <<"A","B","C","1","2","3">>
PlateD == <<"D","E","F","4","5","6">>
PlateUnknown == <<"Z","Z","9">>
PlateMalformed == <<"A","B","-","1">>
PlateEmpty == <<>>
PlateTooLong == <<"A","B","C","D","E","1","2","3","4">>

ParkedCar(car_id, tariff, location, start) ==
    [car_id |-> car_id, tariff |-> tariff, location |-> location, start |-> start]

AddRequest(p) == [op |-> "add_car", path |-> PlateEmpty, body |-> p]
\* remove_car reads only the location of its body
RemoveRequest(car_id, location) ==
    [op |-> "remove_car", path |-> car_id,
     body |-> ParkedCar(None, None, location, None)]
GetRequest(car_id) ==
    [op |-> "get_car", path |-> car_id, body |-> ParkedCar(None, None, 0, None)]

\* arrival times a client sends, relative to its own clock
StartOffsets == {-(ACCEPTED_TIME_DELAY + 1), -ACCEPTED_TIME_DELAY, ACCEPTED_TIME_DELAY + 1}

CarIdInputs == {None, Some(PlateEmpty), Some(PlateX), Some(PlateA), Some(PlateMalformed)}
\* slot numbers on and next to the limits of lines 81 and 160, and slot 7,
\* which X773HY97 holds
LocationInputs ==
    {-1, 0, 1, 7, PARKING_LOT_CAPACITY - 1, PARKING_LOT_CAPACITY, PARKING_LOT_CAPACITY + 1}
RemoveLocations == {1, 7, PARKING_LOT_CAPACITY}

\* the requests of Spec, sent at time t
Requests(t) ==
    \* every combination of identifier, slot and arrival time
    {AddRequest(ParkedCar(id, Some("hourly"), l, Some(t + o))) :
        id \in CarIdInputs, l \in LocationInputs, o \in StartOffsets}
    \* the other tariffs
    \cup {AddRequest(ParkedCar(Some(PlateA), tf, 1, Some(t - ACCEPTED_TIME_DELAY))) :
        tf \in {Some("daily"), None}}
    \* no arrival time, an identifier of nine characters
    \cup {AddRequest(ParkedCar(id, Some("hourly"), 1, None)) : id \in {Some(PlateA), Some(PlateX)}}
    \cup {AddRequest(ParkedCar(Some(PlateTooLong), Some("hourly"), 1, Some(t)))}
    \cup {RemoveRequest(id, l) :
        id \in {PlateX, PlateG, PlateA, PlateUnknown}, l \in RemoveLocations}
    \cup {GetRequest(id) : id \in {PlateX, PlateUnknown}}

\* the requests of SpecConc
ConcRequests(t) ==
    {AddRequest(ParkedCar(Some(id), Some("hourly"), l, Some(t))) :
        id \in {PlateA, PlateD}, l \in {1}}
    \cup {RemoveRequest(PlateX, l) : l \in {7}}

---------------------------------------------------------------------------
(* The state machine.                                                      *)

Clients == 1..MaxClients

NoRequest == GetRequest(PlateEmpty)
Idle == [st |-> "idle", req |-> NoRequest, outcome |-> "none"]

\* the process is started FREE_PARKING_TIME - 1 seconds after X773HY97's
\* start, or one second before G737TT97 has stood a day
BootTimes == {StartX + FREE_PARKING_TIME - 1, StartG + SECONDS_IN_DAY - 1}
Instants == UNION {b..(b + MaxTicks) : b \in BootTimes}

NoFeeCall == [start |-> 0, end |-> 0, tariff |-> None, fee |-> None, done |-> TRUE]

Init ==
    /\ cars = PARKED_CARS
    /\ now \in BootTimes
    /\ calls = [c \in Clients |-> Idle]
    /\ fee_call = NoFeeCall

\* the clock advances
Tick ==
    /\ now + 1 \in Instants
    /\ now' = now + 1
    /\ UNCHANGED <<cars, calls, fee_call>>

\* client c sends a request
Submit(c, R) ==
    /\ calls[c].st = "idle"
    /\ \E req \in R :
        calls' = [calls EXCEPT ![c] = [st |-> "pending", req |-> req, outcome |-> "none"]]
    /\ UNCHANGED <<cars, now, fee_call>>

\* the clock reads of one handler run: remove_car reads the clock twice
SecondRead(req, read1) ==
    IF req.op = "remove_car" THEN {read1} \cup ({read1 + 1} \cap Instants) ELSE {read1}

\* the event loop runs the handler of c's request, whole
Dispatch(c) ==
    /\ calls[c].st = "pending"
    /\ \E read2 \in SecondRead(calls[c].req, now) :
        LET res == Handle(cars, calls[c].req, now, read2) IN
        /\ cars' = res.cars
        /\ calls' = [calls EXCEPT ![c] = [st |-> "done", req |-> calls[c].req, outcome |-> res.outcome]]
        /\ now' = read2
    /\ UNCHANGED fee_call

\* client c receives the response
Respond(c) ==
    /\ calls[c].st = "done"
    /\ calls' = [calls EXCEPT ![c] = Idle]
    /\ UNCHANGED <<cars, now, fee_call>>

\* one client: every call is answered before the next is sent
Next ==
    \/ Tick
    \/ Submit(1, Requests(now))
    \/ Dispatch(1)
    \/ Respond(1)

Spec == Init /\ [][Next]_vars

\* MaxClients clients, whose calls are in flight at the same time
NextConc ==
    \/ Tick
    \/ \E c \in Clients : Submit(c, ConcRequests(now))
    \/ \E c \in Clients : Dispatch(c)
    \/ \E c \in Clients : Respond(c)

SpecConc == Init /\ [][NextConc]_vars

\* a 'start' ACCEPTED_TIME_DELAY + 1 seconds after the origin of the time axis
FutureStart == StartX + ACCEPTED_TIME_DELAY + 1

\* get_exit_fee alone, applied to every time parked up to MaxElapsed, and to
\* every 'end' that lies before a 'start' of FutureStart
FeeInputs ==
    [start : {StartX}, end : 0..MaxElapsed, tariff : {Some(tn) : tn \in TariffName} \cup {None},
     fee : {None}, done : {FALSE}]
    \cup
    [start : {FutureStart}, end : 0..FutureStart, tariff : {Some(tn) : tn \in TariffName},
     fee : {None}, done : {FALSE}]

InitFee ==
    /\ cars = PARKED_CARS
    /\ now = StartG
    /\ calls = [c \in Clients |-> Idle]
    /\ fee_call \in FeeInputs

ExitFee ==
    /\ ~fee_call.done
    /\ fee_call' = [fee_call EXCEPT
            !.fee = get_exit_fee(fee_call.start, fee_call.end, fee_call.tariff),
            !.done = TRUE]
    /\ UNCHANGED <<cars, now, calls>>

NextFee == ExitFee

SpecFee == InitFee /\ [][NextFee]_vars

---------------------------------------------------------------------------
(* Vocabulary of the properties.                                           *)

\* the handler of c's call runs in this step
Dispatched(c) == calls[c].st = "pending" /\ calls'[c].st = "done"

\* c's call is answered and the answer not yet collected
Done(c) == calls[c].st = "done"

Parked(k) == cars[k].status = "parked"
Removed(k) == cars[k].status = "removed"

ValidSlots == 1..PARKING_LOT_CAPACITY

---------------------------------------------------------------------------
\* C1: in every reachable state no two session records hold the same slot
\* number (at most one vehicle per slot).
C1_OneVehiclePerSlot ==
    \A a, b \in DOMAIN cars : a # b => cars[a].location # cars[b].location

---------------------------------------------------------------------------
\* C3: in every reachable state a Parked session has neither fee nor
\* departure time ('end'), and a Removed session has both.
C3_FeeAndEndIffRemoved ==
    \A k \in DOMAIN cars :
        /\ Parked(k) \/ Removed(k)
        /\ Parked(k) => cars[k].fee = None /\ cars[k].end = None
        /\ Removed(k) => cars[k].fee # None /\ cars[k].end # None

\* a session has been ended, its fee and end are set, and a session whose
\* tariff is None stands parked
C3_Witness ==
    /\ \E k \in DOMAIN cars : Removed(k) /\ cars[k].fee # None /\ cars[k].end # None
    /\ \E k \in DOMAIN cars : Parked(k) /\ cars[k].tariff = None

---------------------------------------------------------------------------
\* C5: Removed is terminal.  A session that is Removed is Removed after
\* every step, and a start_session (add_car) that names the vehicle
\* identifier of a Removed session is rejected.
C5_RemovedIsTerminal ==
    [][ /\ \A k \in DOMAIN cars :
            Removed(k) => k \in DOMAIN cars' /\ cars'[k].status = "removed"
        /\ \A c \in Clients :
            ( /\ Dispatched(c)
              /\ calls[c].req.op = "add_car"
              /\ calls[c].req.body.car_id # None
              /\ Val(calls[c].req.body.car_id) \in DOMAIN cars
              /\ Removed(Val(calls[c].req.body.car_id)) )
            => calls'[c].outcome # "ok"
      ]_vars

\* X773HY97 is Removed, the slot asked for is free, and the add_car that
\* reuses the identifier has been refused as CarIdExistsException
C5_Witness ==
    /\ Removed(PlateX)
    /\ \E c \in Clients :
        /\ Done(c)
        /\ calls[c].req.op = "add_car"
        /\ calls[c].req.body.car_id = Some(PlateX)
        /\ calls[c].outcome = "CarIdExistsException"

---------------------------------------------------------------------------
\* the six preconditions of start_session in the order the specification
\* lists them, evaluated on table C and clock t: the error of the first
\* that fails, or "ok"
C6_FirstFailure(C, p, t) ==
    LET failing ==
            {i \in 1..6 :
                \/ i = 1 /\ p.car_id = None
                \/ i = 2 /\ p.location \notin ValidSlots
                \/ i = 3 /\ \E k \in DOMAIN C : C[k].location = p.location
                \/ i = 4 /\ t - Val(p.start) > ACCEPTED_TIME_DELAY
                \/ i = 5 /\ p.car_id # None /\ Val(p.car_id) \in DOMAIN C
                \/ i = 6 /\ p.car_id # None /\ ~FullMatchPlate(Val(p.car_id))}
        errors == <<"CarIdNullException", "InvalidLocationException",
                    "LocationNotAvailableException", "StartDateException",
                    "CarIdExistsException", "CarIdPatternException">>
    IN IF failing = {} THEN "ok"
       ELSE errors[CHOOSE i \in failing : \A j \in failing : i <= j]

\* C6: add_car checks identifier presence, slot validity, slot
\* availability, the arrival-time window, identifier uniqueness and
\* identifier format in this order, and reports the first check that fails.
\* The checks are evaluated on the table and the clock the handler starts
\* with; the calls are those that reach the handler with an arrival time.
C6_CheckOrder ==
    [][ \A c \in Clients :
            ( /\ Dispatched(c)
              /\ calls[c].req.op = "add_car"
              /\ ParkedCarValid(calls[c].req.body)
              /\ calls[c].req.body.start # None )
            => calls'[c].outcome = C6_FirstFailure(cars, calls[c].req.body, now)
      ]_vars

\* the slot is occupied and the identifier exists: LocationNotAvailable
C6_Witness ==
    \E c \in Clients :
        /\ Done(c)
        /\ calls[c].req.op = "add_car"
        /\ calls[c].req.body.car_id = Some(PlateX)
        /\ location_not_available(cars, calls[c].req.body)
        /\ calls[c].req.body.start # None
        /\ now - Val(calls[c].req.body.start) > ACCEPTED_TIME_DELAY
        /\ calls[c].outcome = "LocationNotAvailableException"

---------------------------------------------------------------------------
\* C7: an add_car for a new, well-formed identifier and a free valid slot
\* whose arrival time lies more than ACCEPTED_TIME_DELAY seconds before or
\* after the clock fails with StartDateException and creates no session.
C7_ArrivalWindow ==
    [][ \A c \in Clients :
            LET p == calls[c].req.body IN
            ( /\ Dispatched(c)
              /\ calls[c].req.op = "add_car"
              /\ ParkedCarValid(p)
              /\ p.car_id # None
              /\ FullMatchPlate(Val(p.car_id))
              /\ Val(p.car_id) \notin DOMAIN cars
              /\ p.location \in ValidSlots
              /\ \A k \in DOMAIN cars : cars[k].location # p.location
              /\ p.start # None
              /\ \/ now - Val(p.start) > ACCEPTED_TIME_DELAY
                 \/ Val(p.start) - now > ACCEPTED_TIME_DELAY )
            => calls'[c].outcome = "StartDateException" /\ cars' = cars
      ]_vars

---------------------------------------------------------------------------
\* C10: an add_car with a well-formed identifier and a slot of
\* 0..PARKING_LOT_CAPACITY + 1
\* fails with InvalidLocationException exactly when the slot lies outside
\* 1..PARKING_LOT_CAPACITY (slot 0, slot PARKING_LOT_CAPACITY + 1), the
\* table unchanged; every slot of 1..PARKING_LOT_CAPACITY is taken as a
\* valid slot number, and is assigned when it is free and the rest of the
\* request is in order.
C10_SlotRange ==
    [][ \A c \in Clients :
            LET p == calls[c].req.body IN
            ( /\ Dispatched(c)
              /\ calls[c].req.op = "add_car"
              /\ car_id_field_ok(p.car_id)
              /\ p.car_id # None
              /\ FullMatchPlate(Val(p.car_id))
              /\ p.location \in 0..(PARKING_LOT_CAPACITY + 1) )
            =>
            /\ p.location \notin ValidSlots =>
                    calls'[c].outcome = "InvalidLocationException" /\ cars' = cars
            /\ p.location \in ValidSlots =>
                    calls'[c].outcome \notin {"InvalidLocationException", "RequestValidationError"}
            /\ ( /\ p.location \in ValidSlots
                 /\ p.start # None
                 /\ C6_FirstFailure(cars, p, now) = "ok" )
               => calls'[c].outcome = "ok"
      ]_vars

---------------------------------------------------------------------------
\* a request that add_car refuses for no reason but its slot: a new,
\* well-formed identifier and an arrival time inside the window
C2_OtherwiseValid(req) ==
    /\ ParkedCarValid(req.body)
    /\ req.body.car_id # None
    /\ FullMatchPlate(Val(req.body.car_id))
    /\ Val(req.body.car_id) \notin DOMAIN cars
    /\ req.body.start # None
    /\ now - Val(req.body.start) <= ACCEPTED_TIME_DELAY

\* C2: of two add_car calls in flight at the same time for the same slot,
\* at most one succeeds; when one has succeeded, the other, which names a
\* new well-formed identifier and an arrival time inside the window, fails
\* with LocationNotAvailableException.
C2_OneWinnerPerSlot ==
    \A c1, c2 \in Clients :
        ( /\ c1 # c2
          /\ Done(c1) /\ calls[c1].req.op = "add_car" /\ calls[c1].outcome = "ok"
          /\ Done(c2) /\ calls[c2].req.op = "add_car"
          /\ calls[c2].req.body.location = calls[c1].req.body.location )
        =>
        /\ calls[c2].outcome # "ok"
        /\ C2_OtherwiseValid(calls[c2].req) =>
                calls[c2].outcome = "LocationNotAvailableException"

\* two calls for slot 1 and two identifiers are answered and not yet
\* collected: one created its session, the other was refused the slot
C2_Witness ==
    \E c1, c2 \in Clients :
        /\ Done(c1) /\ calls[c1].req.op = "add_car" /\ calls[c1].outcome = "ok"
        /\ Done(c2) /\ calls[c2].req.op = "add_car"
        /\ calls[c2].req.body.location = calls[c1].req.body.location
        /\ calls[c2].req.body.car_id # calls[c1].req.body.car_id
        /\ C2_OtherwiseValid(calls[c2].req)
        /\ calls[c2].outcome = "LocationNotAvailableException"
        /\ Cardinality({k \in DOMAIN cars : cars[k].location = calls[c1].req.body.location}) = 1

---------------------------------------------------------------------------
\* C4: a remove_car that finds the session Removed raises
\* CarAlreadyRemovedException and leaves the table unchanged, also when it
\* is the second of two calls in flight for the same identifier; the record
\* of a Removed session, its fee included, never changes again.
C4_AlreadyRemovedRejected ==
    [][ /\ \A c \in Clients :
            ( /\ Dispatched(c)
              /\ calls[c].req.op = "remove_car"
              /\ ParkedCarValid(calls[c].req.body)
              /\ calls[c].req.path \in DOMAIN cars
              /\ Removed(calls[c].req.path) )
            => calls'[c].outcome = "CarAlreadyRemovedException" /\ cars' = cars
        /\ \A k \in DOMAIN cars :
            Removed(k) => k \in DOMAIN cars' /\ cars'[k] = cars[k]
      ]_vars

\* two remove_car calls for X773HY97 are answered and not yet collected:
\* one ended the session, the other was refused
C4_Witness ==
    \E c1, c2 \in Clients :
        /\ c1 # c2
        /\ Done(c1) /\ calls[c1].req.op = "remove_car" /\ calls[c1].outcome = "ok"
        /\ Done(c2) /\ calls[c2].req.op = "remove_car"
        /\ calls[c2].req.path = calls[c1].req.path
        /\ calls[c2].outcome = "CarAlreadyRemovedException"
        /\ Removed(calls[c1].req.path)

---------------------------------------------------------------------------
\* the number of billing units of d seconds that a stay of e seconds
\* starts: the least n with n * d >= e
C_UnitsStarted(e, d) ==
    CHOOSE n \in 0..(e \div d + 1) : n * d >= e /\ (n - 1) * d < e

Elapsed == fee_call.end - fee_call.start

\* C8: for the hourly tariff and a stay of at least FREE_PARKING_TIME
\* seconds the fee is ceil(elapsed / 3600) * HOURLY_TARIFF, the rate being
\* the configured 2.5 (25 tenths): 2.5 after 901 s and after 1800 s, 5.0
\* after 3601 s.
C8_HourlyFee ==
    ( /\ fee_call.done
      /\ fee_call.tariff = Some("hourly")
      /\ Elapsed >= FREE_PARKING_TIME )
    => fee_call.fee = Some(C_UnitsStarted(Elapsed, SECONDS_IN_HOUR) * HOURLY_TARIFF)

\* C9: for the daily tariff and every stay of 0..MaxElapsed seconds the fee
\* is 0 below FREE_PARKING_TIME seconds and otherwise the number of days
\* started times DAILY_TARIFF; the threshold is that of the hourly tariff,
\* whose fee is 0 below it and positive from it on.
C9_DailyFee ==
    fee_call.done =>
        /\ fee_call.tariff = Some("daily") =>
            fee_call.fee =
                IF Elapsed < FREE_PARKING_TIME THEN Some(0)
                ELSE Some(C_UnitsStarted(Elapsed, SECONDS_IN_DAY) * DAILY_TARIFF)
        /\ fee_call.tariff = Some("hourly") =>
            /\ fee_call.fee # None
            /\ Val(fee_call.fee) = 0 <=> Elapsed < FREE_PARKING_TIME

\* a stay of one day and one second on the daily tariff is billed two days
C9_Witness ==
    /\ fee_call.done
    /\ fee_call.tariff = Some("daily")
    /\ Elapsed = SECONDS_IN_DAY + 1
    /\ fee_call.fee = Some(2 * DAILY_TARIFF)

---------------------------------------------------------------------------
\* the slots that some session record holds
OccupiedSlots == {cars[k].location : k \in DOMAIN cars}

\* C11: an add_car or remove_car call that fails, with any of the eight
\* typed errors or otherwise, leaves the whole table, and so the slot
\* occupancy, as it was.
C11_NoSideEffectOnFailure ==
    [][ \A c \in Clients :
            ( /\ Dispatched(c)
              /\ calls[c].req.op \in {"add_car", "remove_car"}
              /\ calls'[c].outcome # "ok" )
            => cars' = cars
      ]_vars

\* one session ended and one created, and a second remove_car of the ended
\* session refused
C11_Witness ==
    /\ DOMAIN cars # DOMAIN PARKED_CARS
    /\ \E c \in Clients :
        /\ Done(c)
        /\ calls[c].req.op = "remove_car"
        /\ calls[c].outcome = "CarAlreadyRemovedException"

---------------------------------------------------------------------------
\* C12 as stated: an add_car that reaches the handler with no identifier,
\* or with the empty string as identifier, fails with CarIdNullException,
\* whatever else is wrong with the request.
C12_EmptyIdentifier ==
    [][ \A c \in Clients :
            ( /\ Dispatched(c)
              /\ calls[c].req.op = "add_car"
              /\ ParkedCarValid(calls[c].req.body)
              /\ calls[c].req.body.car_id \in {None, Some(PlateEmpty)} )
            => calls'[c].outcome = "CarIdNullException"
      ]_vars

\* C12 as amended: an add_car that reaches the handler with no identifier
\* (None) fails with CarIdNullException whatever else is wrong; with the
\* empty string it is never CarIdNullException nor a success, and it is
\* CarIdPatternException when slot and arrival time pass their checks.
C12_AbsentIdentifier ==
    [][ \A c \in Clients :
            LET p == calls[c].req.body IN
            ( /\ Dispatched(c)
              /\ calls[c].req.op = "add_car"
              /\ ParkedCarValid(p) )
            =>
            /\ p.car_id = None => calls'[c].outcome = "CarIdNullException"
            /\ (p.car_id = Some(PlateEmpty) /\ p.start # None) =>
                /\ calls'[c].outcome \notin {"CarIdNullException", "ok"}
                /\ ( /\ p.location \in ValidSlots
                     /\ p.location \notin OccupiedSlots
                     /\ now - Val(p.start) <= ACCEPTED_TIME_DELAY )
                   => calls'[c].outcome = "CarIdPatternException"
      ]_vars

\* the empty string as identifier, refused as CarIdPatternException
C12_Witness ==
    \E c \in Clients :
        /\ Done(c)
        /\ calls[c].req.op = "add_car"
        /\ calls[c].req.body.car_id = Some(PlateEmpty)
        /\ calls[c].outcome = "CarIdPatternException"

---------------------------------------------------------------------------
\* C13: when 'end' lies before 'start', get_exit_fee does not return a fee
\* of zero or less.
C13_NegativeElapsedRejected ==
    (fee_call.done /\ Elapsed < 0) =>
        ~(fee_call.fee # None /\ Val(fee_call.fee) <= 0)

---------------------------------------------------------------------------
\* C14: a successful add_car adds one record under the identifier of the
\* request, which had none: Parked, no fee, no end, with the tariff, slot
\* and arrival time of the request; the slot is occupied afterwards and
\* every other record is as it was.
C14_SuccessfulStart ==
    [][ \A c \in Clients :
            LET p == calls[c].req.body IN
            ( /\ Dispatched(c)
              /\ calls[c].req.op = "add_car"
              /\ calls'[c].outcome = "ok" )
            =>
            LET id == Val(p.car_id) IN
            /\ id \notin DOMAIN cars
            /\ DOMAIN cars' = DOMAIN cars \cup {id}
            /\ cars'[id].status = "parked"
            /\ cars'[id].fee = None
            /\ cars'[id].end = None
            /\ cars'[id].tariff = p.tariff
            /\ cars'[id].location = p.location
            /\ cars'[id].start.t = Val(p.start)
            /\ \E k \in DOMAIN cars' : cars'[k].location = p.location
            /\ \A k \in DOMAIN cars : cars'[k] = cars[k]
      ]_vars

\* an add_car without tariff has succeeded and its record is in the table
C14_Witness ==
    \E c \in Clients :
        /\ Done(c)
        /\ calls[c].req.op = "add_car"
        /\ calls[c].outcome = "ok"
        /\ calls[c].req.body.tariff = None
        /\ Val(calls[c].req.body.car_id) \in DOMAIN cars
        /\ Parked(Val(calls[c].req.body.car_id))

---------------------------------------------------------------------------
\* C15: a slot that a session record holds is held by a record after every
\* step, also after that session is ended: it stays unavailable.
C15_SlotNeverReopens ==
    [][ OccupiedSlots \subseteq {cars'[k].location : k \in DOMAIN cars'} ]_vars

---------------------------------------------------------------------------
\* C16: get_car on an identifier without record fails with the typed error
\* of remove_car, CarIdDoesNotExistException, and leaves the table alone.
C16_GetUnknown ==
    [][ \A c \in Clients :
            ( /\ Dispatched(c)
              /\ calls[c].req.op = "get_car"
              /\ calls[c].req.path \notin DOMAIN cars )
            => calls'[c].outcome = "CarIdDoesNotExistException" /\ cars' = cars
      ]_vars

---------------------------------------------------------------------------
\* C17: a successful remove_car changes status, end and fee of the ended
\* session only: its slot, tariff and arrival time are those before the
\* call, the other records are unchanged and so is the set of occupied
\* slots.
C17_EndSessionFrame ==
    [][ \A c \in Clients :
            LET id == calls[c].req.path IN
            ( /\ Dispatched(c)
              /\ calls[c].req.op = "remove_car"
              /\ calls'[c].outcome = "ok" )
            =>
            /\ DOMAIN cars' = DOMAIN cars
            /\ cars'[id].location = cars[id].location
            /\ cars'[id].tariff = cars[id].tariff
            /\ cars'[id].start.t = cars[id].start.t
            /\ \A k \in DOMAIN cars \ {id} : cars'[k] = cars[k]
            /\ {cars'[k].location : k \in DOMAIN cars'} = OccupiedSlots
      ]_vars

---------------------------------------------------------------------------
\* C18: the fee of every Removed session is get_exit_fee of its tariff, its
\* 'start' and its stored 'end'.
C18_FeeAtStoredEnd ==
    \A k \in DOMAIN cars :
        Removed(k) =>
            cars[k].fee = get_exit_fee(cars[k].start.t, Val(cars[k].end), cars[k].tariff)

---------------------------------------------------------------------------
\* C19: a remove_car that reaches the handler for a Parked session
\* succeeds and leaves the session Removed, whether the record is one of
\* the initial table or was created by add_car.
C19_ParkedCanDepart ==
    [][ \A c \in Clients :
            LET id == calls[c].req.path IN
            ( /\ Dispatched(c)
              /\ calls[c].req.op = "remove_car"
              /\ ParkedCarValid(calls[c].req.body)
              /\ id \in DOMAIN cars
              /\ Parked(id) )
            => calls'[c].outcome = "ok" /\ cars'[id].status = "removed"
      ]_vars

====
